---- MODULE Spec2Model ----
(***************************************************************************)
(* A model of app/main.py: the database connection bootstrap               *)
(* (connect_with_retry), the context formatter (create_prompt_context,     *)
(* process_data_with_zep_context) and the two request handlers             *)
(* (add_memory, search_memory).  The memory store, the text-generation     *)
(* model, psycopg2.connect, time.sleep and print are the environment:      *)
(* their outcomes are inputs, and the calls made to them are recorded.     *)
(***************************************************************************)
EXTENDS Integers, Sequences, FiniteSets, TLC

VARIABLES pc, max_retries, retry_delay, retries, ret, conn, raised, trace,
          handled, req, store, bundleIn, llm, fmt, resp, calls

vars == <<pc, max_retries, retry_delay, retries, ret, conn, raised, trace,
          handled, req, store, bundleIn, llm, fmt, resp, calls>>

requestVars == <<handled, req, store, bundleIn, llm, fmt, resp, calls>>

(***************************************************************************)
(* Bounds of the model.                                                    *)
(***************************************************************************)
MaxRetriesArg == 3
MaxDelayArg == 2
MaxTextLen == 3
MaxRequests == 2

(***************************************************************************)
(* Python values.                                                          *)
(***************************************************************************)

\* The exception classes that occur, each with its base class.
BaseOf ==
  [c \in {"Exception", "Error", "DatabaseError", "OperationalError",
          "InterfaceError", "ProgrammingError", "LookupError", "KeyError",
          "ValueError", "RuntimeError", "HTTPException"} |->
     CASE c = "Exception" -> "Exception"
       [] c = "Error" -> "Exception"
       [] c = "DatabaseError" -> "Error"
       [] c = "OperationalError" -> "DatabaseError"
       [] c = "InterfaceError" -> "Error"
       [] c = "ProgrammingError" -> "DatabaseError"
       [] c = "LookupError" -> "Exception"
       [] c = "KeyError" -> "LookupError"
       [] c = "ValueError" -> "Exception"
       [] c = "RuntimeError" -> "Exception"
       [] c = "HTTPException" -> "Exception"]

RECURSIVE IsSubclass(_, _)
\* issubclass(c, base): the test an except clause makes.
IsSubclass(c, base) ==
  IF c = base THEN TRUE
  ELSE IF BaseOf[c] = c THEN FALSE
  ELSE IsSubclass(BaseOf[c], base)

\* No exception (None).
NoExc == [cls |-> "None", status |-> 0, msg |-> <<>>]

\* An exception object: its class, its HTTP status (HTTPException only) and
\* its message (for an HTTPException, its detail) as a sequence of pieces.
Exc(c, m) == [cls |-> c, status |-> 0, msg |-> m]

Digits == <<"0", "1", "2", "3", "4", "5", "6", "7", "8", "9">>

RECURSIVE IntStr(_)
\* The decimal digits an f-string writes for a natural number.
IntStr(n) ==
  IF n < 10 THEN <<Digits[n + 1]>>
  ELSE IntStr(n \div 10) \o <<Digits[(n % 10) + 1]>>

(***************************************************************************)
(* connect_with_retry                                                      *)
(***************************************************************************)

DefaultMaxRetries == 10
DefaultRetryDelay == 5

\* What psycopg2.connect can do: return a connection or raise.
ConnectOutcomes == {"ok", "OperationalError", "InterfaceError", "ProgrammingError"}

Event(op, arg, out) == [op |-> op, arg |-> arg, out |-> out]

\* The calls made to psycopg2.connect so far, in order.
ConnectEvents == SelectSeq(trace, LAMBDA e : e.op = "connect")
\* The calls made to time.sleep so far, in order.
SleepEvents == SelectSeq(trace, LAMBDA e : e.op = "sleep")
\* The retry lines printed so far, in order.
PrintEvents == SelectSeq(trace, LAMBDA e : e.op = "print")

\* retries = 0
Enter ==
  /\ pc = "enter"
  /\ retries' = 0
  /\ pc' = "while"
  /\ UNCHANGED <<max_retries, retry_delay, ret, conn, raised, trace>>
  /\ UNCHANGED requestVars

WhileGuardOffByOne(r, m) == r <= m

\* while retries < max_retries
WhileGuard(r, m) == r < m

WhileTest ==
  /\ pc = "while"
  /\ pc' = IF WhileGuard(retries, max_retries) THEN "connect" ELSE "raise"
  /\ UNCHANGED <<max_retries, retry_delay, retries, ret, conn, raised, trace>>
  /\ UNCHANGED requestVars

RetriesAnyException(c) == IsSubclass(c, "Exception")

\* except psycopg2.OperationalError
RetryHandlerCatches(c) == IsSubclass(c, "OperationalError")

\* conn = psycopg2.connect(...); return conn.  The connection returned is
\* named by the number of the attempt that produced it.
Connect ==
  /\ pc = "connect"
  /\ \E out \in ConnectOutcomes :
       /\ trace' = Append(trace, Event("connect", 0, out))
       /\ IF out = "ok"
          THEN /\ ret' = Len(ConnectEvents) + 1
               /\ pc' = "returned"
               /\ raised' = raised
          ELSE IF RetryHandlerCatches(out)
          THEN /\ pc' = "except"
               /\ UNCHANGED <<ret, raised>>
          ELSE /\ pc' = "raised"
               /\ raised' = Exc(out, <<"connect failed">>)
               /\ ret' = ret
  /\ UNCHANGED <<max_retries, retry_delay, retries, conn>>
  /\ UNCHANGED requestVars

\* retries += 1; print(f"Database not ready, retrying in ...")
ExceptRetry ==
  /\ pc = "except"
  /\ retries' = retries + 1
  /\ trace' = Append(trace, Event("print", retries + 1, ""))
  /\ pc' = "sleep"
  /\ UNCHANGED <<max_retries, retry_delay, ret, conn, raised>>
  /\ UNCHANGED requestVars

SleepSkipped ==
  /\ pc = "sleep"
  /\ pc' = "while"
  /\ UNCHANGED <<max_retries, retry_delay, retries, ret, conn, raised, trace>>
  /\ UNCHANGED requestVars

\* time.sleep(retry_delay)
Sleep ==
  /\ pc = "sleep"
  /\ trace' = Append(trace, Event("sleep", retry_delay, ""))
  /\ pc' = "while"
  /\ UNCHANGED <<max_retries, retry_delay, retries, ret, conn, raised>>
  /\ UNCHANGED requestVars

\* Exception(f"Failed to connect to database after {max_retries} retries")
FatalError(m) ==
  Exc("Exception", <<"Failed to connect to database after ">> \o IntStr(m)
                     \o <<" retries">>)

\* raise Exception(...)
RaiseFatal ==
  /\ pc = "raise"
  /\ raised' = FatalError(max_retries)
  /\ pc' = "raised"
  /\ UNCHANGED <<max_retries, retry_delay, retries, ret, conn, trace>>
  /\ UNCHANGED requestVars

(***************************************************************************)
(* The context formatter                                                   *)
(***************************************************************************)

Whitespace == {" "}
Chars == {" ", "a"}

\* The texts a response can carry, up to MaxTextLen characters.
Texts == UNION {[1..n -> Chars] : n \in 0..MaxTextLen}

\* What model.generate_content(prompt) and response.text can do: raise, or
\* give a response whose text is None or a string.
LLMRaise(c, m) == [kind |-> "raise", exc |-> Exc(c, m), none |-> TRUE, s |-> <<>>]
LLMText(isNone, t) == [kind |-> "response", exc |-> NoExc, none |-> isNone, s |-> t]

LLMOutcomes ==
  {LLMRaise("RuntimeError", <<"api error">>),
   LLMRaise("ValueError", <<"response blocked">>),
   LLMText(TRUE, <<>>)}
  \cup {LLMText(FALSE, t) : t \in Texts}

RECURSIVE LStrip(_)
LStrip(s) ==
  IF s # <<>> /\ Head(s) \in Whitespace THEN LStrip(Tail(s)) ELSE s

RECURSIVE RStrip(_)
RStrip(s) ==
  IF s # <<>> /\ s[Len(s)] \in Whitespace
  THEN RStrip(SubSeq(s, 1, Len(s) - 1)) ELSE s

\* str.strip()
Strip(s) == RStrip(LStrip(s))

\* A string or None as a condition: None and "" are false.
TruthyText(v) == ~v.none /\ v.s # <<>>

FormatterCatchesValueErrorOnly(c) == IsSubclass(c, "ValueError")

\* except Exception as e
FormatterCatches(c) == IsSubclass(c, "Exception")

\* create_prompt_context(data): the value returned (None or a string), the
\* exception leaving the function (if any), and whether the error was printed.
create_prompt_context(o) ==
  IF o.kind = "raise"
  THEN IF FormatterCatches(o.exc.cls)
       THEN [raised |-> NoExc, none |-> TRUE, s |-> <<>>, printed |-> TRUE]
       ELSE [raised |-> o.exc, none |-> TRUE, s |-> <<>>, printed |-> FALSE]
  ELSE IF TruthyText(o)
       THEN [raised |-> NoExc, none |-> FALSE, s |-> Strip(o.s), printed |-> FALSE]
       ELSE [raised |-> NoExc, none |-> TRUE, s |-> <<>>, printed |-> FALSE]

\* d[k] = v
DictSet(d, k, v) == [x \in (DOMAIN d) \cup {k} |-> IF x = k THEN v ELSE d[x]]

ContextGuardNotNone(c) == ~c.none

\* if context:
ContextGuard(c) == TruthyText(c)

\* process_data_with_zep_context(data): the object returned (by its id), its
\* keys and values after the call, and the exception leaving the function.
process_data_with_zep_context(data, o) ==
  LET context == create_prompt_context(o) IN
  IF context.raised # NoExc
  THEN [raised |-> context.raised, id |-> 0, d |-> data.d, printed |-> context.printed]
  ELSE IF ContextGuard(context)
  THEN [raised |-> NoExc, id |-> data.id,
        d |-> DictSet(data.d, "context_string", context.s),
        printed |-> context.printed]
  ELSE [raised |-> NoExc, id |-> data.id, d |-> data.d, printed |-> context.printed]

EmptyDict == [x \in {} |-> <<>>]

\* A dict object: its identity and its keys and values.
Dict(i, d) == [id |-> i, d |-> d]

FactLists == {<<>>, <<"fact">>}
RelationLists == {<<>>, <<"relation">>}

\* The bundles memory.search returns with the graph store configured.
StoreBundles ==
  {Dict(1, [k \in {"results", "relations"} |->
              IF k = "results" THEN f ELSE r]) :
     f \in FactLists, r \in RelationLists}

\* Any bundle: results, with or without relations, with or without a
\* context_string already set.
AnyBundles ==
  StoreBundles
  \cup {Dict(1, [k \in {"results"} |-> f]) : f \in FactLists}
  \cup {Dict(1, DictSet(b.d, "context_string", <<"o", "l", "d">>)) : b \in StoreBundles}

NoRequest == [kind |-> "none", user_id |-> "", text |-> ""]
NoStore == [kind |-> "none", exc |-> NoExc, val |-> "", bundle |-> Dict(0, EmptyDict)]
NoBundle == Dict(0, EmptyDict)
NoLLM == [kind |-> "none", exc |-> NoExc, none |-> TRUE, s |-> <<>>]
NoFmt == [raised |-> NoExc, id |-> 0, d |-> EmptyDict, printed |-> FALSE]
NoResp == [kind |-> "none", status |-> 0, detail |-> <<>>, message |-> "",
           query |-> "", results |-> <<>>]

\* processed_data = process_data_with_zep_context(results)
Format ==
  /\ pc = "format"
  /\ \E o \in LLMOutcomes :
       /\ llm' = o
       /\ fmt' = process_data_with_zep_context(bundleIn, o)
  /\ pc' = "formatted"
  /\ UNCHANGED <<max_retries, retry_delay, retries, ret, conn, raised, trace>>
  /\ UNCHANGED <<handled, req, store, bundleIn, resp, calls>>

(***************************************************************************)
(* The request handlers                                                    *)
(***************************************************************************)

\* A value of the store's add call: its type and its length.
PyVal(t, n) == [type |-> t, len |-> n]

\* bool(v): None and empty containers are false.
Truthy(v) == v.type # "NoneType" /\ v.len > 0

StoreRaise(c, m) ==
  [kind |-> "raise", exc |-> Exc(c, m), val |-> PyVal("NoneType", 0),
   bundle |-> Dict(0, EmptyDict)]
StoreValue(v) ==
  [kind |-> "return", exc |-> NoExc, val |-> v, bundle |-> Dict(0, EmptyDict)]
StoreBundle(b) ==
  [kind |-> "return", exc |-> NoExc, val |-> PyVal("dict", Cardinality(DOMAIN b.d)),
   bundle |-> b]

StoreErrors ==
  {StoreRaise("RuntimeError", <<"store unavailable">>),
   StoreRaise("ValueError", <<"bad input">>)}

\* What memory.add(text, user_id=...) can do.
StoreAddOutcomes ==
  StoreErrors
  \cup {StoreValue(PyVal("NoneType", 0)), StoreValue(PyVal("list", 0)),
        StoreValue(PyVal("dict", 0)), StoreValue(PyVal("list", 1)),
        StoreValue(PyVal("dict", 2))}

\* What memory.search(query=..., user_id=...) can do.
StoreSearchOutcomes == StoreErrors \cup {StoreBundle(b) : b \in StoreBundles}

AddRequests == {[kind |-> "add", user_id |-> "u1", text |-> t] : t \in {"t1", "t2"}}
SearchRequests == {[kind |-> "search", user_id |-> "u1", text |-> q] : q \in {"q1", "q2"}}

\* HTTPException(status_code=..., detail=...)
HTTPException(status, detail) ==
  [cls |-> "HTTPException", status |-> status, msg |-> detail]

\* str(e) as the f-string {e} writes it: "<status>: <detail>" for an
\* HTTPException, the quoted key for a KeyError, the message otherwise.
Str(e) ==
  IF e.cls = "HTTPException" THEN IntStr(e.status) \o <<": ">> \o e.msg
  ELSE IF e.cls = "KeyError" THEN <<"'">> \o e.msg \o <<"'">>
  ELSE e.msg

\* How a handler body ends: a value returned or an exception raised.
Returned(body) == [kind |-> "return", exc |-> NoExc, body |-> body]
Raised(e) == [kind |-> "raise", exc |-> e, body |-> NoResp]

SuccessMessage(m) ==
  [kind |-> "success", status |-> 200, detail |-> <<>>, message |-> m,
   query |-> "", results |-> <<>>]
SuccessSearch(q, r) ==
  [kind |-> "success", status |-> 200, detail |-> <<>>, message |-> "",
   query |-> q, results |-> r]

\* What the client gets: the returned body, the error response of a raised
\* HTTPException, or an exception that escaped the handler.
Response(r) ==
  IF r.kind = "return" THEN r.body
  ELSE IF r.exc.cls = "HTTPException"
  THEN [kind |-> "http_error", status |-> r.exc.status, detail |-> r.exc.msg,
        message |-> "", query |-> "", results |-> <<>>]
  ELSE [kind |-> "escaped", status |-> 0, detail |-> r.exc.msg,
        message |-> r.exc.cls, query |-> "", results |-> <<>>]

HandlerCatchesLookupErrorOnly(c) == IsSubclass(c, "LookupError")

\* except Exception as e (both handlers)
HandlerCatches(c) == IsSubclass(c, "Exception")

PostConditionNoneOnly(v) == v.type = "NoneType"

\* if not memory_result:
PostConditionFails(v) == ~Truthy(v)

NoIdsDetail == <<"Error adding/updating memory: mem0 returned no ids">>

\* The try block of add_memory.
AddTry(so) ==
  IF so.kind = "raise" THEN Raised(so.exc)
  ELSE IF PostConditionFails(so.val) THEN Raised(HTTPException(500, NoIdsDetail))
  ELSE Returned(SuccessMessage("Memory operation completed!"))

\* add_memory(request)
add_memory(so) ==
  LET r == AddTry(so) IN
  IF r.kind = "raise" /\ HandlerCatches(r.exc.cls)
  THEN Raised(HTTPException(500, <<"Error processing memory event: ">> \o Str(r.exc)))
  ELSE r

SubscriptOrDefault(d, k) ==
  IF k \in DOMAIN d THEN [raised |-> NoExc, value |-> d[k]]
  ELSE [raised |-> NoExc, value |-> <<>>]

\* d[k]: the value, or KeyError(k) when the key is missing.
Subscript(d, k) ==
  IF k \in DOMAIN d THEN [raised |-> NoExc, value |-> d[k]]
  ELSE [raised |-> Exc("KeyError", <<k>>), value |-> <<>>]

\* The try block of search_memory.
SearchTry(q, so, o) ==
  IF so.kind = "raise" THEN Raised(so.exc)
  ELSE LET processed_data == process_data_with_zep_context(so.bundle, o) IN
       IF processed_data.raised # NoExc THEN Raised(processed_data.raised)
       ELSE LET results == Subscript(processed_data.d, "context_string") IN
            IF results.raised # NoExc THEN Raised(results.raised)
            ELSE Returned(SuccessSearch(q, results.value))

\* search_memory(request)
search_memory(q, so, o) ==
  LET r == SearchTry(q, so, o) IN
  IF r.kind = "raise" /\ HandlerCatches(r.exc.cls)
  THEN Raised(HTTPException(500, <<"Error searching memory: ">> \o Str(r.exc)))
  ELSE r

\* POST /add_memory/
AddMemory ==
  /\ pc = "serving"
  /\ handled < MaxRequests
  /\ \E r \in AddRequests, so \in StoreAddOutcomes :
       /\ req' = r
       /\ store' = so
       /\ calls' = <<"memory.add">>
       /\ resp' = Response(add_memory(so))
  /\ handled' = handled + 1
  /\ bundleIn' = NoBundle
  /\ llm' = NoLLM
  /\ fmt' = NoFmt
  /\ UNCHANGED <<pc, max_retries, retry_delay, retries, ret, conn, raised, trace>>

\* POST /search_memory/
SearchMemory ==
  /\ pc = "serving"
  /\ handled < MaxRequests
  /\ \E r \in SearchRequests, so \in StoreSearchOutcomes, o \in LLMOutcomes :
       /\ req' = r
       /\ store' = so
       /\ bundleIn' = so.bundle
       /\ IF so.kind = "return"
          THEN /\ llm' = o
               /\ fmt' = process_data_with_zep_context(so.bundle, o)
               /\ calls' = <<"memory.search", "generate_content">>
          ELSE /\ llm' = NoLLM
               /\ fmt' = NoFmt
               /\ calls' = <<"memory.search">>
       /\ resp' = Response(search_memory(r.text, so, o))
  /\ handled' = handled + 1
  /\ UNCHANGED <<pc, max_retries, retry_delay, retries, ret, conn, raised, trace>>

(***************************************************************************)
(* Module import (process startup)                                         *)
(***************************************************************************)

\* memory = Memory.from_config(config): succeeds, or raises and ends the import.
MemoryFromConfig ==
  /\ pc = "from_config"
  /\ \E ok \in BOOLEAN :
       IF ok THEN /\ pc' = "enter"
                  /\ raised' = raised
             ELSE /\ pc' = "crashed"
                  /\ raised' = Exc("RuntimeError", <<"memory configuration failed">>)
  /\ UNCHANGED <<max_retries, retry_delay, retries, ret, conn, trace>>
  /\ UNCHANGED requestVars

\* conn = connect_with_retry(): the call returned.
AssignConn ==
  /\ pc = "returned"
  /\ conn' = ret
  /\ pc' = "assigned"
  /\ UNCHANGED <<max_retries, retry_delay, retries, ret, raised, trace>>
  /\ UNCHANGED requestVars

ImportContinues ==
  /\ pc = "raised"
  /\ pc' = "assigned"
  /\ UNCHANGED <<max_retries, retry_delay, retries, ret, conn, raised, trace>>
  /\ UNCHANGED requestVars

\* conn = connect_with_retry(): the call raised; the import fails and the
\* process ends before any route exists.
ImportFails ==
  /\ pc = "raised"
  /\ pc' = "crashed"
  /\ UNCHANGED <<max_retries, retry_delay, retries, ret, conn, raised, trace>>
  /\ UNCHANGED requestVars

\* The request models and the route decorators run; the import ends and the
\* server starts serving.
RegisterRoutes ==
  /\ pc = "assigned"
  /\ pc' = "serving"
  /\ UNCHANGED <<max_retries, retry_delay, retries, ret, conn, raised, trace>>
  /\ UNCHANGED requestVars

(***************************************************************************)
(* Specifications                                                          *)
(***************************************************************************)

InitRequestVars ==
  /\ handled = 0
  /\ req = NoRequest
  /\ store = NoStore
  /\ bundleIn = NoBundle
  /\ llm = NoLLM
  /\ fmt = NoFmt
  /\ resp = NoResp
  /\ calls = <<>>

\* connect_with_retry called with arguments of the caller's choosing.
InitRetry ==
  /\ pc = "enter"
  /\ max_retries \in 0..MaxRetriesArg
  /\ retry_delay \in 0..MaxDelayArg
  /\ retries = 0
  /\ ret = 0
  /\ conn = 0
  /\ raised = NoExc
  /\ trace = <<>>
  /\ InitRequestVars

NextRetry == Enter \/ WhileTest \/ Connect \/ ExceptRetry \/ Sleep \/ RaiseFatal

SpecRetry == InitRetry /\ [][NextRetry]_vars

\* process_data_with_zep_context called on a bundle of the caller's choosing.
InitFormat ==
  /\ pc = "format"
  /\ max_retries = DefaultMaxRetries
  /\ retry_delay = DefaultRetryDelay
  /\ retries = 0
  /\ ret = 0
  /\ conn = 0
  /\ raised = NoExc
  /\ trace = <<>>
  /\ handled = 0
  /\ req = NoRequest
  /\ store = NoStore
  /\ bundleIn \in AnyBundles
  /\ llm = NoLLM
  /\ fmt = NoFmt
  /\ resp = NoResp
  /\ calls = <<>>

NextFormat == Format

SpecFormat == InitFormat /\ [][NextFormat]_vars

\* The program: the module is imported, then requests are served.
Init ==
  /\ pc = "from_config"
  /\ max_retries = DefaultMaxRetries
  /\ retry_delay = DefaultRetryDelay
  /\ retries = 0
  /\ ret = 0
  /\ conn = 0
  /\ raised = NoExc
  /\ trace = <<>>
  /\ InitRequestVars

Next ==
  \/ MemoryFromConfig
  \/ Enter \/ WhileTest \/ Connect \/ ExceptRetry \/ Sleep \/ RaiseFatal
  \/ AssignConn \/ ImportFails \/ RegisterRoutes
  \/ AddMemory \/ SearchMemory

Spec == Init /\ [][Next]_vars

(***************************************************************************)
(* Properties of connect_with_retry (checked under SpecRetry)              *)
(***************************************************************************)

\* connect_with_retry has ended: it returned or an exception left it.
Ended == pc \in {"returned", "raised"}

\* Every connection attempt made so far failed with OperationalError.
AllAttemptsFailedRecoverably ==
  \A i \in 1..Len(ConnectEvents) : ConnectEvents[i].out = "OperationalError"

DigitValue(c) == (CHOOSE i \in 1..10 : Digits[i] = c) - 1

RECURSIVE DecimalValue(_)
\* The number a sequence of decimal digits reads as.
DecimalValue(ds) ==
  IF ds = <<>> THEN 0
  ELSE 10 * DecimalValue(SubSeq(ds, 1, Len(ds) - 1)) + DigitValue(ds[Len(ds)])

\* The exception is the fatal one and the number its message states is n.
IsFatalStating(e, n) ==
  /\ e.cls = "Exception"
  /\ Len(e.msg) >= 3
  /\ e.msg[1] = "Failed to connect to database after "
  /\ e.msg[Len(e.msg)] = " retries"
  /\ \A i \in 2..(Len(e.msg) - 1) : \E k \in 1..10 : Digits[k] = e.msg[i]
  /\ DecimalValue(SubSeq(e.msg, 2, Len(e.msg) - 1)) = n

\* C1: when every connection attempt fails with OperationalError,
\* connect_with_retry never makes more than max_retries attempts, never
\* returns a connection, keeps running until it ends, and ends by raising the
\* fatal error, whose message states max_retries, after exactly max_retries
\* attempts.
C1_ExhaustionIsFatal ==
  AllAttemptsFailedRecoverably =>
    /\ Len(ConnectEvents) <= max_retries
    /\ ret = 0
    /\ pc # "returned"
    /\ ~Ended => ENABLED NextRetry
    /\ Ended => /\ Len(ConnectEvents) = max_retries
                /\ IsFatalStating(raised, max_retries)

C1_Witness ==
  /\ pc = "raised"
  /\ max_retries = 2
  /\ Len(ConnectEvents) = 2
  /\ AllAttemptsFailedRecoverably
  /\ IsFatalStating(raised, 2)

\* The first k attempts failed with OperationalError and attempt k+1 succeeded.
FailsThenSucceeds(k) ==
  /\ Len(ConnectEvents) >= k + 1
  /\ \A i \in 1..k : ConnectEvents[i].out = "OperationalError"
  /\ ConnectEvents[k + 1].out = "ok"

\* C2: when the first k < max_retries attempts fail with OperationalError and
\* attempt k+1 succeeds, connect_with_retry has returned the connection of
\* attempt k+1, exactly k waits were made, and the successful attempt is the
\* last thing it did (no further attempt, wait or log).
C2_ReturnsFirstSuccess ==
  \A k \in 0..Len(trace) :
    (k < max_retries /\ FailsThenSucceeds(k)) =>
      /\ pc = "returned"
      /\ ret = k + 1
      /\ raised = NoExc
      /\ Len(SleepEvents) = k
      /\ Len(ConnectEvents) = k + 1
      /\ trace[Len(trace)].op = "connect"

C2_Witness ==
  /\ max_retries = 3
  /\ FailsThenSucceeds(2)
  /\ ret = 3
  /\ Len(SleepEvents) = 2

\* C8 (as claimed): every wait lasts retry_delay, and once the retries are
\* exhausted every wait made was followed by a further connection attempt.
C8_EveryWaitPrecedesARetry ==
  /\ \A i \in 1..Len(SleepEvents) : SleepEvents[i].arg = retry_delay
  /\ (pc \in {"raise", "raised"} /\ AllAttemptsFailedRecoverably) =>
       \A i \in 1..Len(trace) :
         trace[i].op = "sleep" =>
           \E j \in (i + 1)..Len(trace) : trace[j].op = "connect"

\* An attempt that raised something other than OperationalError.
IsOtherFailure(e) ==
  e.op = "connect" /\ e.out \notin {"ok", "OperationalError"}

\* C9: an attempt that raises anything other than OperationalError is the
\* last thing connect_with_retry does: the exception leaves the function, no
\* connection is returned, and nothing is logged, waited for or counted for
\* it (retries, logs and waits all equal the number of recoverable failures).
C9_OtherErrorsPropagate ==
  \A i \in 1..Len(trace) :
    IsOtherFailure(trace[i]) =>
      /\ i = Len(trace)
      /\ pc = "raised"
      /\ raised.cls = trace[i].out
      /\ ret = 0
      /\ retries = Len(ConnectEvents) - 1
      /\ Len(PrintEvents) = Len(ConnectEvents) - 1
      /\ Len(SleepEvents) = Len(ConnectEvents) - 1
      /\ \A j \in 1..(Len(ConnectEvents) - 1) :
           ConnectEvents[j].out = "OperationalError"

C9_Witness ==
  /\ pc = "raised"
  /\ Len(ConnectEvents) = 2
  /\ ConnectEvents[1].out = "OperationalError"
  /\ ConnectEvents[2].out = "InterfaceError"
  /\ raised.cls = "InterfaceError"
  /\ retries = 1

(***************************************************************************)
(* Properties of the context formatter and the handlers                    *)
(***************************************************************************)

\* The text-generation call failed: it raised, or its text is None or "".
LLMFailed(o) ==
  \/ o.kind = "raise"
  \/ o.kind = "response" /\ (o.none \/ o.s = <<>>)

\* The response text is a non-empty string of whitespace only.
WhitespaceOnly(o) ==
  /\ o.kind = "response"
  /\ ~o.none
  /\ o.s # <<>>
  /\ \A i \in 1..Len(o.s) : o.s[i] \in Whitespace

\* The last request was a search whose store call returned a bundle.
SearchReachedFormatter == req.kind = "search" /\ store.kind = "return"

IsHTTP500 == resp.kind = "http_error" /\ resp.status = 500

\* C3: a search whose store call succeeds but whose formatter produces no
\* context_string ends with HTTP 500; a search never returns a success
\* response whose results field is empty.
C3_MissingContextIs500 ==
  /\ (SearchReachedFormatter
      /\ (LLMFailed(llm) \/ "context_string" \notin DOMAIN fmt.d)) => IsHTTP500
  /\ (req.kind = "search" /\ resp.kind = "success") => resp.results # <<>>

C3_Witness ==
  /\ SearchReachedFormatter
  /\ llm.kind = "raise"
  /\ "context_string" \notin DOMAIN fmt.d
  /\ IsHTTP500
  /\ resp.detail = <<"Error searching memory: ", "'", "context_string", "'">>

\* The store's add call returned None or an empty container.
AddReturnedFalsy ==
  /\ req.kind = "add"
  /\ store.kind = "return"
  /\ (store.val.type = "NoneType" \/ store.val.len = 0)

\* C4: an add whose store call returns a falsy result without raising ends
\* with HTTP 500, the detail of the response says that no ids were returned,
\* and the response is not the success message.
C4_FalsyAddIs500 ==
  AddReturnedFalsy =>
    /\ IsHTTP500
    /\ \E i \in 1..Len(resp.detail) :
         resp.detail[i] = "Error adding/updating memory: mem0 returned no ids"
    /\ resp.message # "Memory operation completed!"

C4_Witness ==
  /\ AddReturnedFalsy
  /\ store.val.type = "list"
  /\ IsHTTP500

\* C5: when the text-generation call fails, process_data_with_zep_context
\* does not raise and returns the bundle it was given, with the keys and
\* values it had before the call.
C5_FormatterFailureLeavesBundle ==
  (pc = "formatted" /\ LLMFailed(llm)) =>
    /\ fmt.raised = NoExc
    /\ fmt.id = bundleIn.id
    /\ fmt.d = bundleIn.d

C5_Witness ==
  /\ pc = "formatted"
  /\ llm.kind = "raise"
  /\ llm.exc.cls = "RuntimeError"
  /\ DOMAIN bundleIn.d = {"results", "relations"}
  /\ fmt.d = bundleIn.d
  /\ fmt.printed

\* The number of calls made to the memory store while handling the request.
StoreCalls == Len(SelectSeq(calls, LAMBDA c : c \in {"memory.add", "memory.search"}))

\* C6: every add or search request ends with its success response or with an
\* HTTP 500 error response carrying a detail string, nothing else leaves the
\* handler, and the store was called exactly once.
C6_HandlersEndInSuccessOr500 ==
  req.kind \in {"add", "search"} =>
    /\ resp.kind \in {"success", "http_error"}
    /\ resp.kind = "http_error" => (resp.status = 500 /\ resp.detail # <<>>)
    /\ (resp.kind = "success" /\ req.kind = "add") =>
         resp.message = "Memory operation completed!"
    /\ (resp.kind = "success" /\ req.kind = "search") =>
         (resp.query = req.text /\ resp.results = fmt.d["context_string"])
    /\ StoreCalls = 1

C6_Witness ==
  /\ req.kind = "add"
  /\ store.kind = "raise"
  /\ IsHTTP500
  /\ resp.detail = <<"Error processing memory event: ", "store unavailable">>
  /\ StoreCalls = 1

\* C7: a request is handled only once connect_with_retry has returned a
\* connection and the module holds it; once the import has failed (the
\* retries were exhausted, or any other startup error) nothing more happens
\* and no request was handled.
C7_BootstrapBlocksStartup ==
  /\ handled > 0 =>
       /\ pc = "serving"
       /\ conn # 0
       /\ conn = ret
       /\ ConnectEvents[conn].out = "ok"
  /\ raised # NoExc => (handled = 0 /\ pc \in {"raised", "crashed"})
  /\ pc = "crashed" => ~ENABLED Next

C7_Witness ==
  /\ handled = 1
  /\ conn = 3
  /\ Len(SleepEvents) = 2

\* c is s without its leading and trailing whitespace.
IsStrippedFormOf(c, s) ==
  \E i \in 0..Len(s), j \in 0..Len(s) :
    /\ i + Len(c) + j = Len(s)
    /\ \A k \in 1..i : s[k] \in Whitespace
    /\ \A k \in (Len(s) - j + 1)..Len(s) : s[k] \in Whitespace
    /\ \A k \in 1..Len(c) : c[k] = s[i + k]
    /\ c # <<>> => (c[1] \notin Whitespace /\ c[Len(c)] \notin Whitespace)

\* C10: after the formatter ran on a search result, a context_string in the
\* bundle is non-empty and is this call's response text without its
\* surrounding whitespace; for a whitespace-only response
\* create_prompt_context returns "" (not None), context_string stays unset
\* and the search ends with HTTP 500.
C10_ContextStringIsStrippedResponse ==
  SearchReachedFormatter =>
    /\ "context_string" \in DOMAIN fmt.d =>
         /\ llm.kind = "response"
         /\ ~llm.none
         /\ fmt.d["context_string"] # <<>>
         /\ IsStrippedFormOf(fmt.d["context_string"], llm.s)
    /\ WhitespaceOnly(llm) =>
         /\ ~create_prompt_context(llm).none
         /\ create_prompt_context(llm).s = <<>>
         /\ "context_string" \notin DOMAIN fmt.d
         /\ IsHTTP500

C10_Witness ==
  /\ SearchReachedFormatter
  /\ llm.s = <<" ", " ">>
  /\ ~llm.none
  /\ "context_string" \notin DOMAIN fmt.d
  /\ IsHTTP500

====
